---- MODULE Spec2Model ----
(***************************************************************************)
(* FPClock (src/src/fpclock.c): a daemon that keeps the system clock and   *)
(* the front-panel RTC in step and records the RTC's drift.                *)
(*                                                                         *)
(* Three specifications share one set of variables:                        *)
(*   SpecDrift  the drift window: add_drift and calc_drift                 *)
(*   SpecSync   one-shot sync_fp calls against a changing environment      *)
(*   Spec       the daemon: main's start-up, its loop and its signals      *)
(*                                                                         *)
(* Modelling conventions                                                   *)
(*  - time_t / int values are plain integers; every value that occurs is   *)
(*    far inside the 32-bit range, where the casts (int)x are the identity.*)
(*  - a double is an exact rational.  calc_drift's result is the record    *)
(*    [num, den]; a rate read from the drift file is an integer number of  *)
(*    millionths (the file is written with "%lf", six decimals).           *)
(***************************************************************************)
EXTENDS Integers, Sequences, FiniteSets

\* ------------------------------------------------------------------ bounds
\* number of add_drift calls with a non-zero value explored by SpecDrift
MaxSamples == 11
\* number of sync_fp calls explored by SpecSync
MaxSyncs == 2
\* number of sleeps of the daemon's loop explored by Spec
MaxCycles == 2
\* number of signals delivered to the daemon explored by Spec
MaxSignals == 2
MaxInvocations == 2

\* ------------------------------------------------------- program constants
\* static int drift_data[10]
WindowSize == 10
\* for (x...) drift_data[x] = -1
FillValue == -1
\* static int delay = 1800
DefaultDelay == 1800
\* if (atime_difference > 30)
Tolerance == 30
\* "%lf" prints and reads six decimals
Million == 1000000

VARIABLES
    drift_data,     \* static int drift_data[10]
    drift_index,    \* static int drift_index
    delay,          \* static int delay
    recorded,       \* history: the non-zero values add_drift stored, oldest first
    last_add,       \* history: the last add_drift call, [arg, data, index] before it
    calc,           \* history: the last calc_drift call, or NoCalc
    proc_state,     \* /proc/stb/fp/rtc: "ok", "missing" (fopen fails), "malformed"
    dev_state,      \* /dev/dbox/fp0: "ok", "missing" (open fails), "ioctl_fail"
    fp_rtc,         \* the epoch the front-panel clock holds
    sys_time,       \* the system clock: time(0)
    drift_file,     \* /etc/fpclock.drift: [state, lastsave, drift (millionths)]
    res,            \* history: the last sync_fp call and what it did
    n_sync,         \* history: number of sync_fp calls so far
    pc,             \* where main is
    running,        \* static int running
    sigint,         \* disposition of SIGINT: "default" or "handler"
    sighup,         \* disposition of SIGHUP: "default" or "handler"
    lock,           \* who holds the lock on /var/run/fpclock.pid: "none", "other", "self"
    set_old,        \* setRTC's local old
    set_time,       \* setRTC's parameter time
    n_write,        \* history: hardware writes made by the loop
    n_cycle,        \* history: completed sleeps
    n_signal,       \* history: signals delivered
    term,           \* history: handle_signal's SIGINT branch, runs and what it did
    set_prev,       \* history: the time parameter of the loop's previous setRTC call
    unlocked_cycle, \* history: the loop wrote the clock while not holding the lock
    cli,            \* history: the last command-line action and what it returned
    last_set        \* history: the last whole setRTC call

driftVars == <<drift_data, drift_index, delay, recorded, last_add, calc>>

envVars == <<proc_state, dev_state, fp_rtc, drift_file>>

syncVars == <<sys_time, res, n_sync>>

mainVars == <<pc, running, sigint, sighup, lock, set_old, set_time,
              n_write, n_cycle, n_signal>>

histVars == <<term, set_prev, unlocked_cycle, cli, last_set>>

vars == <<driftVars, envVars, syncVars, mainVars, histVars>>

NoTerm == [count |-> 0, opened |-> FALSE, samples |-> 0, writes |-> 0]

NoCli == [action |-> "none", arg |-> 0, ret |-> 0, msg |-> "none", n |-> 0]

NoSet == [called |-> FALSE, saveDrift |-> 0, time |-> 0, old |-> 0, sample |-> 0,
          rtc_before |-> 0, rtc_after |-> 0, data |-> <<>>, index |-> 0]

HistIdle ==
    /\ term = NoTerm
    /\ set_prev = 0
    /\ unlocked_cycle = FALSE
    /\ cli = NoCli
    /\ last_set = NoSet

Slots == 0 .. (WindowSize - 1)

Abs(x) == IF x < 0 THEN -x ELSE x

\* the daemon is not part of this specification
MainIdle ==
    /\ pc = "none"
    /\ running = 0
    /\ sigint = "default"
    /\ sighup = "default"
    /\ lock = "none"
    /\ set_old = 0
    /\ set_time = 0
    /\ n_write = 0
    /\ n_cycle = 0
    /\ n_signal = 0
    /\ HistIdle


\* ---------------------------------------------------------- drift window

\* main: for (int x = 0; x < 10; x++) drift_data[x] = -1;
InitWindow == [i \in Slots |-> FillValue]

\* a bug add_drift could have: the index wraps one slot late
AddDriftWrapLate(data, index, drift) ==
    IF drift # 0
    THEN [data  |-> [i \in DOMAIN data \cup {index} |->
                        IF i = index THEN drift ELSE data[i]],
          index |-> IF index + 1 > 10 THEN 0 ELSE index + 1]
    ELSE [data |-> data, index |-> index]

\* a bug add_drift could have: the zero test left out
AddDriftNoZeroTest(data, index, drift) ==
    [data  |-> [data EXCEPT ![index] = drift],
     index |-> IF index + 1 > 9 THEN 0 ELSE index + 1]

\* add_drift as a function of the window: the window and index after the call
AddDrift(data, index, drift) ==
    IF drift # 0
    THEN [data  |-> [data EXCEPT ![index] = drift],
          index |-> IF index + 1 > 9 THEN 0 ELSE index + 1]
    ELSE [data |-> data, index |-> index]

\* int cmpfunc(a, b) { return *a - *b; }
cmpfunc(a, b) == a - b

RECURSIVE InsertSorted(_, _)
InsertSorted(s, x) ==
    IF s = <<>> THEN <<x>>
    ELSE IF cmpfunc(x, Head(s)) <= 0 THEN <<x>> \o s
    ELSE <<Head(s)>> \o InsertSorted(Tail(s), x)

RECURSIVE SortPrefix(_, _)
SortPrefix(data, n) ==
    IF n = 0 THEN <<>> ELSE InsertSorted(SortPrefix(data, n - 1), data[n - 1])

\* a bug the sort could have: no sort at all
QsortNone(data) == data

\* qsort(drift_data, 10, sizeof(int), cmpfunc): the array in ascending order
Qsort(data) == [i \in Slots |-> SortPrefix(data, WindowSize)[i + 1]]

\* calc_drift's return value for window data and delay d:
\*   median = (double)(drift_data[(9)/2] + drift_data[5]) / 2.0;  median / (double)delay
\* as the rational num/den
CalcDrift(data, d) ==
    [num |-> Qsort(data)[9 \div 2] + Qsort(data)[5], den |-> 2 * d]

NoCalc == [done |-> FALSE]

\* ------------------------------------------------------------- SpecDrift

\* the samples of section 8's end-to-end example, in the order they are recorded
ExampleSamples == <<5, -3, 8, 1, 9, -2, 4, 7, 6, 3>>

SmallSamples == {0, -1, 2}

IsPrefix(s, t) == Len(s) <= Len(t) /\ \A i \in 1 .. Len(s) : s[i] = t[i]

\* the values offered to the next add_drift call
NextSamples ==
    SmallSamples \cup
    (IF Len(recorded) < Len(ExampleSamples) /\ IsPrefix(recorded, ExampleSamples)
     THEN {ExampleSamples[Len(recorded) + 1]} ELSE {})

\* void add_drift(int drift)
add_drift(drift) ==
    /\ drift_data' = AddDrift(drift_data, drift_index, drift).data
    /\ drift_index' = AddDrift(drift_data, drift_index, drift).index
    /\ recorded' = IF drift # 0 THEN Append(recorded, drift) ELSE recorded
    /\ last_add' = [arg |-> drift, data |-> drift_data, index |-> drift_index]

\* double calc_drift(void): sorts drift_data in place and returns the rate
calc_drift ==
    /\ drift_data' = Qsort(drift_data)
    /\ calc' = [done |-> TRUE, before |-> drift_data, delay |-> delay,
                rate |-> CalcDrift(drift_data, delay)]

DriftInit ==
    /\ drift_data = InitWindow
    /\ drift_index = 0
    /\ delay \in {DefaultDelay, 60}
    /\ recorded = <<>>
    /\ last_add = [arg |-> 0, data |-> InitWindow, index |-> 0]
    /\ calc = NoCalc
    /\ proc_state = "ok"
    /\ dev_state = "ok"
    /\ fp_rtc = 0
    /\ drift_file = [state |-> "missing", lastsave |-> 0, drift |-> 0]
    /\ sys_time = 0
    /\ res = [called |-> FALSE, cmdline |-> 0]
    /\ n_sync = 0
    /\ MainIdle

DriftAdd ==
    /\ ~calc.done
    /\ Len(recorded) < MaxSamples
    /\ \E d \in NextSamples : add_drift(d)
    /\ UNCHANGED <<delay, calc, envVars, syncVars, mainVars>>
    /\ UNCHANGED histVars

DriftCalc ==
    /\ ~calc.done
    /\ calc_drift
    /\ UNCHANGED <<drift_index, delay, recorded, last_add, envVars, syncVars, mainVars>>
    /\ UNCHANGED histVars

DriftNext == DriftAdd \/ DriftCalc

SpecDrift == DriftInit /\ [][DriftNext]_vars

\* ------------------------------------------------------- hardware clock

\* time_t getRTC(void): the proc file when fopen succeeds (0 when its content does
\* not scan), else the device's FP_IOCTL_GET_RTC (0 when open or ioctl fails)
\* a different getRTC: the device is asked as well when the proc file is malformed
GetRTCFallbackOnMalformed(ps, ds, rtc) ==
    IF ps = "ok" THEN rtc ELSE (IF ds = "ok" THEN rtc ELSE 0)

GetRTC(ps, ds, rtc) ==
    IF ps # "missing"
    THEN (IF ps = "ok" THEN rtc ELSE 0)
    ELSE (IF ds = "ok" THEN rtc ELSE 0)

\* ---------------------------------------------------------- drift file

NoDriftFile == [state |-> "missing", lastsave |-> 0, drift |-> 0]

BadDriftFile == [state |-> "malformed", lastsave |-> 0, drift |-> 0]

DriftRecord(lastsave, drift) == [state |-> "ok", lastsave |-> lastsave, drift |-> drift]

\* a/b with the fraction discarded, as C's (int) conversion of a double does (b > 0)
TruncDiv(a, b) == IF a >= 0 THEN a \div b ELSE -((-a) \div b)

\* a bug get_drift_seconds could have: only the rate is tested
DriftUsableRateOnly(lastsave, drift) == drift # 0

\* if (drift != 0 && lastsave != 0)
DriftUsable(lastsave, drift) == drift # 0 /\ lastsave # 0

\* a bug the conversion could have: rounding down instead of towards zero
DriftSecondsFloor(elapsed, drift) == (elapsed * drift) \div Million

\* (int)((double)(rtctime - lastsave) * drift), drift in millionths
DriftSeconds(elapsed, drift) == TruncDiv(elapsed * drift, Million)

\* what fscanf(f, "%d:%lf", &lastsave, &drift) leaves in lastsave and drift:
\* both are zeroed unless both fields scanned
ScanDriftFile(f) ==
    IF f.state = "ok" THEN [lastsave |-> f.lastsave, drift |-> f.drift]
    ELSE [lastsave |-> 0, drift |-> 0]

\* int get_drift_seconds(int rtctime)
GetDriftSeconds(f, rtctime) ==
    IF f.state = "missing" THEN 0
    ELSE IF DriftUsable(ScanDriftFile(f).lastsave, ScanDriftFile(f).drift)
         THEN DriftSeconds(rtctime - ScanDriftFile(f).lastsave, ScanDriftFile(f).drift)
         ELSE 0

\* ---------------------------------------------------------------- sync_fp

\* a bug sync_fp could have: the reading is not tested
RtcValidAlways(rtc_time) == TRUE

\* if (rtc_time)
RtcValid(rtc_time) == rtc_time # 0

\* if (atime_difference > 30)
OutOfTolerance(diff) == Abs(diff) > Tolerance

\* a bug sync_fp could have: EPERM is answered with a step as well
StepOnErrnoAny(errno) == errno # "none"

\* if (rc == -1) { if (errno == EINVAL) ...
StepOnErrno(errno) == errno = "EINVAL"

\* tnow.tv_sec = time_difference: the seconds handed to settimeofday
StepSeconds(rtc_time, time_difference) == time_difference

\* settimeofday's answer: Linux refuses a time before the epoch (EINVAL)
SetTimeOfDayOk(tv_sec) == tv_sec >= 0

\* what adjtime may answer: success, or -1 with errno EINVAL or EPERM
AdjtimeErrnos == {"none", "EINVAL", "EPERM"}

\* struct timeval tdelta is declared without initialiser and only tv_sec is
\* assigned: tv_usec holds whatever the stack held
StackGarbage == {0, 2500000}

NoSync ==
    [called |-> FALSE, cmdline |-> 0, file |-> NoDriftFile, rtc_raw |-> 0,
     sys_before |-> 0, drift |-> 0, rtc_time |-> 0, diff |-> 0,
     adj_called |-> FALSE, tv_sec |-> 0, tv_usec |-> 0, errno |-> "none",
     set_called |-> FALSE, set_sec |-> 0, log |-> "none", console |-> 0]

\* int sync_fp(int cmdline), adjtime answering errno and the stack holding usec
SyncFp(cmdline, errno, usec) ==
    LET rtc_raw     == GetRTC(proc_state, dev_state, fp_rtc)
        system_time == sys_time
        drift       == IF cmdline = 0 /\ RtcValid(rtc_raw)
                       THEN GetDriftSeconds(drift_file, rtc_raw) ELSE 0
        rtc_time    == rtc_raw + drift
        diff        == rtc_time - system_time
        adj         == RtcValid(rtc_raw) /\ OutOfTolerance(diff)
        step        == adj /\ StepOnErrno(errno)
        set_sec     == StepSeconds(rtc_time, diff)
    IN
    /\ res' = [called |-> TRUE, cmdline |-> cmdline, file |-> drift_file,
               rtc_raw |-> rtc_raw, sys_before |-> system_time,
               drift |-> drift, rtc_time |-> rtc_time, diff |-> diff,
               adj_called |-> adj,
               tv_sec |-> IF adj THEN diff ELSE 0,
               tv_usec |-> IF adj THEN usec ELSE 0,
               errno |-> IF adj THEN errno ELSE "none",
               set_called |-> step,
               set_sec |-> IF step THEN set_sec ELSE 0,
               log |-> IF ~RtcValid(rtc_raw) THEN "sync_failed"
                       ELSE IF ~adj THEN "none"
                       ELSE IF errno = "none" \/ step THEN "slewing"
                       ELSE "slewing_failed",
               console |-> cmdline]
    /\ sys_time' = IF step /\ SetTimeOfDayOk(set_sec) THEN set_sec ELSE sys_time
    /\ n_sync' = n_sync + 1

sync_fp(cmdline) ==
    \E errno \in AdjtimeErrnos, usec \in StackGarbage : SyncFp(cmdline, errno, usec)

\* --------------------------------------------------------------- SpecSync

RtcValues == {0, 969, 970, 1000, 1030, 1031, 2000}

SysTimes == {1000, 2000, 2010}

DriftFiles ==
    {NoDriftFile, BadDriftFile,
     DriftRecord(1000, 10000), DriftRecord(0, 10000), DriftRecord(1000, 0),
     DriftRecord(1000, 1900), DriftRecord(1000, -1900), DriftRecord(3000, 10000),
     DriftRecord(1000, 40000)}

EnvInit ==
    /\ proc_state \in {"ok", "missing", "malformed"}
    /\ dev_state \in {"ok", "missing", "ioctl_fail"}
    /\ fp_rtc \in RtcValues
    /\ drift_file \in DriftFiles

DriftIdle ==
    /\ drift_data = InitWindow
    /\ drift_index = 0
    /\ delay = DefaultDelay
    /\ recorded = <<>>
    /\ last_add = [arg |-> 0, data |-> InitWindow, index |-> 0]
    /\ calc = NoCalc

SyncInit ==
    /\ DriftIdle
    /\ EnvInit
    /\ sys_time \in SysTimes
    /\ res = NoSync
    /\ n_sync = 0
    /\ MainIdle

\* fpclock -r: sync_fp(1)
SyncRestore ==
    /\ n_sync < MaxSyncs
    /\ sync_fp(1)
    /\ UNCHANGED <<driftVars, envVars, mainVars>>
    /\ UNCHANGED histVars

\* the daemon's start: sync_fp(0)
SyncDaemonStart ==
    /\ n_sync < MaxSyncs
    /\ sync_fp(0)
    /\ UNCHANGED <<driftVars, envVars, mainVars>>
    /\ UNCHANGED histVars

SyncNext == SyncRestore \/ SyncDaemonStart

SpecSync == SyncInit /\ [][SyncNext]_vars

\* ------------------------------------------------------------ the daemon

\* a/b rounded to the nearest integer, halves away from zero (b > 0)
RoundDiv(a, b) ==
    IF a >= 0 THEN (2 * a + b) \div (2 * b) ELSE -((2 * (-a) + b) \div (2 * b))

RECURSIVE Gcd(_, _)
Gcd(a, b) == IF b = 0 THEN a ELSE Gcd(b, a % b)

\* fprintf(fd, "%ld:%lf", time(0), drift): the rate as printed, in millionths
\* (num * 1000000 / den, the fraction reduced first)
RateToMicros(rate) ==
    RoundDiv(rate.num * (Million \div Gcd(Million, rate.den)),
             rate.den \div Gcd(Million, rate.den))

\* what setRTC's write leaves in the front-panel clock: the proc file when fopen
\* succeeds, else the device's FP_IOCTL_SET_RTC, else nothing is written
SetRTCWrite(ps, ds, rtc, time) ==
    IF ps # "missing" THEN time
    ELSE IF ds = "ok" THEN time
    ELSE rtc

\* static storage before main's fill loop
ZeroWindow == [i \in Slots |-> 0]

\* seconds the front-panel clock gains or loses over one sleep
HwDrift == {-1, 0, 2}

Alive == pc \notin {"none", "exit_failure", "exited", "killed"}

\* the kernel drops the lock of a process that ends
LockAfterExit == IF lock = "self" THEN "none" ELSE lock

DaemonInit ==
    /\ drift_data = ZeroWindow
    /\ drift_index = 0
    /\ delay = DefaultDelay
    /\ recorded = <<>>
    /\ last_add = [arg |-> 0, data |-> ZeroWindow, index |-> 0]
    /\ calc = NoCalc
    /\ proc_state \in {"ok", "missing", "malformed"}
    /\ dev_state \in {"ok", "missing"}
    /\ fp_rtc \in {0, 2000}
    /\ drift_file \in {NoDriftFile, DriftRecord(1000, 10000), DriftRecord(1000, 40000)}
    /\ sys_time = 2000
    /\ res = NoSync
    /\ n_sync = 0
    /\ pc = "start"
    /\ running = 0
    /\ sigint = "default"
    /\ sighup = "default"
    /\ lock \in {"none", "other"}
    /\ set_old = 0
    /\ set_time = 0
    /\ n_write = 0
    /\ n_cycle = 0
    /\ n_signal = 0
    /\ HistIdle

\* daemonize(): the forks succeed and the pid file is opened; lockf(F_TLOCK) fails
\* when another process holds the lock
MainDaemonize ==
    /\ pc = "start"
    /\ IF lock = "other"
       THEN pc' = "exit_failure" /\ lock' = lock
       ELSE pc' = "install" /\ lock' = "self"
    /\ UNCHANGED <<driftVars, envVars, syncVars, running, sigint, sighup,
                   set_old, set_time, n_write, n_cycle, n_signal>>
    /\ UNCHANGED histVars

\* daemonize(): fork, setsid or the open of the pid file fails
MainDaemonizeFails ==
    /\ pc = "start"
    /\ pc' = "exit_failure"
    /\ UNCHANGED <<driftVars, envVars, syncVars, running, sigint, sighup, lock,
                   set_old, set_time, n_write, n_cycle, n_signal>>
    /\ UNCHANGED histVars

\* signal(SIGINT, handle_signal); signal(SIGHUP, handle_signal);
MainInstall ==
    /\ pc = "install"
    /\ sigint' = "handler"
    /\ sighup' = "handler"
    /\ pc' = "conf"
    /\ UNCHANGED <<driftVars, envVars, syncVars, running, lock,
                   set_old, set_time, n_write, n_cycle, n_signal>>
    /\ UNCHANGED histVars

\* read_conf_file(0) returns at once (conf_file_name is never set); running = 1
MainSetRunning ==
    /\ pc = "conf"
    /\ running' = 1
    /\ pc' = "fill"
    /\ UNCHANGED <<driftVars, envVars, syncVars, sigint, sighup, lock,
                   set_old, set_time, n_write, n_cycle, n_signal>>
    /\ UNCHANGED histVars

\* for (int x = 0; x < 10; x++) drift_data[x] = -1;
MainFill ==
    /\ pc = "fill"
    /\ drift_data' = InitWindow
    /\ pc' = "sync"
    /\ UNCHANGED <<drift_index, delay, recorded, last_add, calc, envVars, syncVars,
                   running, sigint, sighup, lock, set_old, set_time,
                   n_write, n_cycle, n_signal>>
    /\ UNCHANGED histVars

\* a bug main could have: the start-up sync made as the command line's restore
MainSyncAsRestore ==
    /\ pc = "sync"
    /\ sync_fp(1)
    /\ pc' = "loop"
    /\ UNCHANGED <<driftVars, envVars, running, sigint, sighup, lock,
                   set_old, set_time, n_write, n_cycle, n_signal>>
    /\ UNCHANGED histVars

\* sync_fp(0); // initial sync from FP
MainSync ==
    /\ pc = "sync"
    /\ sync_fp(0)
    /\ pc' = "loop"
    /\ UNCHANGED <<driftVars, envVars, running, sigint, sighup, lock,
                   set_old, set_time, n_write, n_cycle, n_signal>>
    /\ UNCHANGED histVars

\* while (running == 1)
MainLoopTest ==
    /\ pc = "loop"
    /\ pc' = IF running = 1 THEN "set_read" ELSE "closing"
    /\ UNCHANGED <<driftVars, envVars, syncVars, running, sigint, sighup, lock,
                   set_old, set_time, n_write, n_cycle, n_signal>>
    /\ UNCHANGED histVars

\* a different setRTC: the old value is read after the new one is written
SetRtcOldAfterWrite(ps, ds, rtc, time) ==
    GetRTC(ps, ds, SetRTCWrite(ps, ds, rtc, time))

\* time_t old = getRTC();  at the top of setRTC's saveDrift branch, the clock
\* holding rtc and time not yet written
SetRtcOld(ps, ds, rtc, time) == GetRTC(ps, ds, rtc)

\* int drift = (int)old - (int)time;
SetRtcSample(old, time) == old - time

\* write_fp(-1): setRTC(time(0), 1, 0) up to  time_t old = getRTC();
SetRtcRead ==
    /\ pc = "set_read"
    /\ set_time' = sys_time
    /\ set_old' = SetRtcOld(proc_state, dev_state, fp_rtc, sys_time)
    /\ pc' = "set_add"
    /\ unlocked_cycle' = (unlocked_cycle \/ lock # "self")
    /\ set_prev' = set_time
    /\ UNCHANGED <<driftVars, envVars, syncVars, running, sigint, sighup, lock,
                   n_write, n_cycle, n_signal>>
    /\ UNCHANGED <<term, cli, last_set>>

\* int drift = (int)old - (int)time; if (drift != 0) add_drift(drift);
SetRtcAdd ==
    /\ pc = "set_add"
    /\ IF SetRtcSample(set_old, set_time) # 0
       THEN add_drift(SetRtcSample(set_old, set_time))
       ELSE UNCHANGED <<drift_data, drift_index, recorded, last_add>>
    /\ pc' = "set_write"
    /\ UNCHANGED <<delay, calc, envVars, syncVars, running, sigint, sighup, lock,
                   set_old, set_time, n_write, n_cycle, n_signal>>
    /\ UNCHANGED histVars

\* setRTC's write of time to the proc file or the device
SetRtcWrite ==
    /\ pc = "set_write"
    /\ fp_rtc' = SetRTCWrite(proc_state, dev_state, fp_rtc, set_time)
    /\ n_write' = n_write + 1
    /\ pc' = "sleep"
    /\ UNCHANGED <<driftVars, proc_state, dev_state, drift_file, syncVars,
                   running, sigint, sighup, lock, set_old, set_time,
                   n_cycle, n_signal>>
    /\ UNCHANGED histVars

\* sleep(delay) runs to its end: both clocks advance, the front-panel clock
\* by its own error as well
MainSleep ==
    /\ pc = "sleep"
    /\ n_cycle < MaxCycles
    /\ \E e \in HwDrift : fp_rtc' = fp_rtc + delay + e
    /\ sys_time' = sys_time + delay
    /\ n_cycle' = n_cycle + 1
    /\ pc' = "loop"
    /\ UNCHANGED <<driftVars, proc_state, dev_state, drift_file, res, n_sync,
                   running, sigint, sighup, lock, set_old, set_time,
                   n_write, n_signal>>
    /\ UNCHANGED histVars

\* the code after the loop: the log is closed, clean(), return EXIT_SUCCESS
MainExit ==
    /\ pc = "closing"
    /\ pc' = "exited"
    /\ lock' = LockAfterExit
    /\ UNCHANGED <<driftVars, envVars, syncVars, running, sigint, sighup,
                   set_old, set_time, n_write, n_cycle, n_signal>>
    /\ UNCHANGED histVars

\* seconds of the sleep that have passed when a signal arrives during it
SleptAtSignal == IF pc = "sleep" THEN delay \div 2 ELSE 0

\* a handler that runs during sleep(delay) ends the sleep: here half the interval
\* has passed
AfterHandler ==
    /\ pc' = IF pc = "sleep" THEN "loop" ELSE pc
    /\ sys_time' = sys_time + SleptAtSignal
    /\ fp_rtc' = fp_rtc + SleptAtSignal

\* a signal whose disposition is the default one ends the process
Killed ==
    /\ pc' = "killed"
    /\ lock' = LockAfterExit
    /\ n_signal' = n_signal + 1
    /\ UNCHANGED <<driftVars, envVars, syncVars, running, sigint, sighup,
                   set_old, set_time, n_write, n_cycle>>
    /\ UNCHANGED histVars

\* a bug handle_signal could have: SIGINT keeps its handler
SigintAfterHandlerKept == "handler"

\* signal(SIGINT, SIG_DFL); // Reset signal handling to default behavior.
SigintAfterHandler == "default"

\* handle_signal(SIGINT): the lock is released and the pid file unlinked, the
\* drift record is written when the drift file can be opened, running = 0 and
\* SIGINT goes back to its default disposition
HandleSigInt ==
    /\ lock' = IF lock = "self" THEN "none" ELSE lock
    /\ \E opened \in BOOLEAN :
          /\ IF opened
             THEN /\ calc_drift
                  /\ drift_file' =
                        DriftRecord(sys_time + SleptAtSignal,
                                    RateToMicros(CalcDrift(drift_data, delay)))
             ELSE UNCHANGED <<drift_data, calc, drift_file>>
          /\ term' = [count |-> term.count + 1, opened |-> opened,
                      samples |-> Len(recorded), writes |-> n_write]
    /\ running' = 0
    /\ sigint' = SigintAfterHandler
    /\ AfterHandler
    /\ n_signal' = n_signal + 1
    /\ UNCHANGED <<drift_index, delay, recorded, last_add, proc_state, dev_state,
                   res, n_sync, sighup, set_old, set_time, n_write, n_cycle>>
    /\ UNCHANGED <<set_prev, unlocked_cycle, cli, last_set>>

\* handle_signal(SIGHUP): read_conf_file(1) returns at once (conf_file_name is
\* never set)
HandleSigHup ==
    /\ AfterHandler
    /\ n_signal' = n_signal + 1
    /\ UNCHANGED <<driftVars, proc_state, dev_state, drift_file, res, n_sync,
                   running, sigint, sighup, lock, set_old, set_time,
                   n_write, n_cycle>>
    /\ UNCHANGED histVars

\* SIGINT is delivered to the process
SigInt ==
    /\ Alive
    /\ n_signal < MaxSignals
    /\ IF sigint = "handler" THEN HandleSigInt ELSE Killed

\* SIGHUP is delivered to the process
SigHup ==
    /\ Alive
    /\ n_signal < MaxSignals
    /\ IF sighup = "handler" THEN HandleSigHup ELSE Killed

\* another instance of the daemon is started once this one has given the lock
\* up: its lockf(pid_fd, F_TLOCK, 0) succeeds
OtherDaemonStarts ==
    /\ pc # "start"
    /\ lock = "none"
    /\ lock' = "other"
    /\ UNCHANGED <<driftVars, envVars, syncVars, pc, running, sigint, sighup,
                   set_old, set_time, n_write, n_cycle, n_signal>>
    /\ UNCHANGED histVars

Init == DaemonInit

Next ==
    \/ MainDaemonize
    \/ MainDaemonizeFails
    \/ MainInstall
    \/ MainSetRunning
    \/ MainFill
    \/ MainSync
    \/ MainLoopTest
    \/ SetRtcRead
    \/ SetRtcAdd
    \/ SetRtcWrite
    \/ MainSleep
    \/ MainExit
    \/ SigInt
    \/ SigHup
    \/ OtherDaemonStarts

Spec == Init /\ [][Next]_vars

\* ------------------------------------------- command-line invocations

\* write_fp: if (c < 1672527600) // 1.1.2023
MinEpoch == 1672527600

\* values of forcedate: -1 (no -f given, or -u), too low, accepted
ForceDates == {-1, 5000, MinEpoch - 1, MinEpoch, MinEpoch + 7}

\* the static storage of a process that has just started
FreshProcess ==
    /\ drift_data = ZeroWindow
    /\ drift_index = 0
    /\ delay = DefaultDelay
    /\ recorded = <<>>
    /\ last_add = [arg |-> 0, data |-> ZeroWindow, index |-> 0]
    /\ calc = NoCalc
    /\ res = NoSync

CliInit ==
    /\ FreshProcess
    /\ proc_state \in {"ok", "missing", "malformed"}
    /\ dev_state \in {"ok", "missing", "ioctl_fail"}
    /\ fp_rtc \in {1990, 2000, 2040}
    /\ drift_file = DriftRecord(1000, 10000)
    /\ sys_time = 2000
    /\ n_sync = 0
    /\ pc = "cli_main"
    /\ running = 0
    /\ sigint = "default"
    /\ sighup = "default"
    /\ lock = "none"
    /\ set_old = 0
    /\ set_time = 0
    /\ n_write = 0
    /\ n_cycle = 0
    /\ n_signal = 0
    /\ HistIdle

daemonOnlyVars == <<running, sigint, sighup, lock, set_old, set_time, n_write,
                    n_cycle, n_signal, term, set_prev, unlocked_cycle>>

\* void setRTC(time_t time, int saveDrift, int logMode), run as a whole
setRTC(time, saveDrift) ==
    LET old    == SetRtcOld(proc_state, dev_state, fp_rtc, time)
        sample == SetRtcSample(old, time)
    IN
    /\ IF saveDrift = 1 /\ sample # 0
       THEN add_drift(sample)
       ELSE UNCHANGED <<drift_data, drift_index, recorded, last_add>>
    /\ fp_rtc' = SetRTCWrite(proc_state, dev_state, fp_rtc, time)
    /\ last_set' = [called |-> TRUE, saveDrift |-> saveDrift, time |-> time,
                    old |-> IF saveDrift = 1 THEN old ELSE 0,
                    sample |-> IF saveDrift = 1 THEN sample ELSE 0,
                    rtc_before |-> fp_rtc,
                    rtc_after |-> SetRTCWrite(proc_state, dev_state, fp_rtc, time),
                    data |-> drift_data, index |-> drift_index]

\* fpclock -p: print_fp(); clean(); return EXIT_SUCCESS;
CliPrint ==
    /\ pc = "cli_main"
    /\ cli' = [action |-> "print", arg |-> 0, ret |-> 0,
               msg |-> IF GetRTC(proc_state, dev_state, fp_rtc) # 0
                       THEN "read_result" ELSE "read_failed",
               n |-> cli.n + 1]
    /\ pc' = "cli_exit"
    /\ UNCHANGED <<driftVars, envVars, syncVars, last_set, daemonOnlyVars>>

\* fpclock -u / fpclock -f c: write_fp(forcedate); clean(); return EXIT_SUCCESS;
CliWrite ==
    /\ pc = "cli_main"
    /\ \E c \in ForceDates :
          IF c # -1
          THEN IF c < MinEpoch
               THEN /\ cli' = [action |-> "write", arg |-> c, ret |-> 1,
                               msg |-> "epoch_too_low", n |-> cli.n + 1]
                    /\ UNCHANGED <<drift_data, drift_index, recorded, last_add,
                                   fp_rtc, last_set>>
               ELSE /\ setRTC(c, 0)
                    /\ cli' = [action |-> "write", arg |-> c, ret |-> 0,
                               msg |-> "none", n |-> cli.n + 1]
          ELSE /\ setRTC(sys_time, 1)
               /\ cli' = [action |-> "write", arg |-> c, ret |-> 0,
                          msg |-> "none", n |-> cli.n + 1]
    /\ pc' = "cli_exit"
    /\ UNCHANGED <<delay, calc, proc_state, dev_state, drift_file, syncVars,
                   daemonOnlyVars>>

\* fpclock -r: sync_fp(1); clean(); return EXIT_SUCCESS;
CliRestore ==
    /\ pc = "cli_main"
    /\ sync_fp(1)
    /\ cli' = [action |-> "restore", arg |-> 0, ret |-> 0,
               msg |-> res'.log, n |-> cli.n + 1]
    /\ pc' = "cli_exit"
    /\ UNCHANGED <<driftVars, envVars, last_set, daemonOnlyVars>>

\* the program is started again some seconds later
CliStart ==
    /\ pc = "cli_exit"
    /\ cli.n < MaxInvocations
    /\ drift_data' = ZeroWindow
    /\ drift_index' = 0
    /\ delay' = DefaultDelay
    /\ recorded' = <<>>
    /\ last_add' = [arg |-> 0, data |-> ZeroWindow, index |-> 0]
    /\ calc' = NoCalc
    /\ res' = NoSync
    /\ cli' = [NoCli EXCEPT !.n = cli.n]
    /\ last_set' = NoSet
    /\ sys_time' = sys_time + 10
    /\ \E e \in HwDrift : fp_rtc' = fp_rtc + 10 + e
    /\ pc' = "cli_main"
    /\ UNCHANGED <<proc_state, dev_state, drift_file, n_sync, daemonOnlyVars>>

CliNext == CliPrint \/ CliWrite \/ CliRestore \/ CliStart

SpecCli == CliInit /\ [][CliNext]_vars

\* ------------------------------------------------- claims on the window

Min(a, b) == IF a < b THEN a ELSE b

\* the k-th smallest (0-indexed) of the values of w, by counting
OrderStat(w, k) ==
    CHOOSE v \in {w[i] : i \in DOMAIN w} :
        /\ Cardinality({i \in DOMAIN w : w[i] < v}) <= k
        /\ Cardinality({i \in DOMAIN w : w[i] <= v}) > k

Swap(w, i, j) == [w EXCEPT ![i] = w[j], ![j] = w[i]]

\* C5: after N non-zero samples recorded into the freshly filled window (and no
\* calc_drift), sample j of the history sits in slot (j-1) mod 10 as long as it is
\* one of the 10 most recent, the slots never written still hold the fill value,
\* so the window holds exactly the min(N, 10) most recent samples; the write index
\* is N mod 10 and always in 0..9; and once N > 10 the slot the last call wrote is
\* the one that held the oldest stored sample, every other slot being left alone.
C5_WindowIsFifo ==
    LET n == Len(recorded) IN
    /\ drift_index \in Slots
    /\ DOMAIN drift_data = Slots
    /\ ~calc.done =>
        /\ drift_index = n % WindowSize
        /\ \A j \in 1 .. n :
              n - j < WindowSize => drift_data[(j - 1) % WindowSize] = recorded[j]
        /\ \A i \in Slots : i >= n => drift_data[i] = FillValue
        /\ Cardinality({j \in 1 .. n : n - j < WindowSize}) = Min(n, WindowSize)
        /\ (n > WindowSize /\ last_add.arg # 0) =>
              /\ last_add.data[last_add.index] = recorded[n - WindowSize]
              /\ drift_data[last_add.index] = recorded[n]
              /\ \A i \in Slots \ {last_add.index} : drift_data[i] = last_add.data[i]

\* C5 witness: an eleventh sample has been recorded, over the oldest one
C5_Witness ==
    /\ ~calc.done
    /\ Len(recorded) = WindowSize + 1
    /\ last_add.arg # 0
    /\ last_add.data[0] # drift_data[0]

\* C6: a call add_drift(0) leaves every slot and the write index as they were
\* before the call, and no slot of the window ever holds the value 0.
C6_ZeroIsNoOp ==
    /\ (~calc.done /\ last_add.arg = 0) =>
          /\ drift_data = last_add.data
          /\ drift_index = last_add.index
    /\ \A i \in DOMAIN drift_data : drift_data[i] # 0

\* C6 witness: add_drift(0) was called on a window that already holds samples
C6_Witness ==
    /\ ~calc.done
    /\ last_add.arg = 0
    /\ Len(recorded) >= 3
    /\ drift_index = 3

ExampleWindow == [i \in Slots |-> ExampleSamples[i + 1]]

\* C7: calc_drift's result is (the 5th smallest + the 6th smallest slot value) / 2
\* / delay, the order statistics taken by counting; exchanging any two neighbouring slots
\* (such exchanges generate every reordering) of the window gives the same result; and the window holding 5,-3,8,1,9,-2,4,7,6,3
\* with delay 1800 gives 4.5/1800 (= 9/3600).
C7_MedianOfMiddlePair ==
    calc.done =>
        /\ calc.rate.den = 2 * calc.delay
        /\ calc.rate.num = OrderStat(calc.before, 4) + OrderStat(calc.before, 5)
        /\ \A i \in Slots \ {WindowSize - 1} :
              CalcDrift(Swap(calc.before, i, i + 1), calc.delay) = calc.rate
        /\ (calc.before = ExampleWindow /\ calc.delay = DefaultDelay) =>
              calc.rate.num * 3600 = 9 * calc.rate.den

\* C7 witness: calc_drift ran on the window of the end-to-end example
C7_Witness ==
    /\ calc.done
    /\ calc.before = ExampleWindow
    /\ calc.delay = DefaultDelay
    /\ calc.rate = [num |-> 9, den |-> 3600]

\* ---------------------------------------------------- claims on sync_fp

\* C1: when getRTC returned 0 (the read failed, or the clock holds the unknown
\* value), sync_fp calls neither adjtime nor settimeofday, logs the sync failure
\* and leaves the system clock as it found it, with and without extrapolation.
C1_ReadFailureIsNoOp ==
    (res.called /\ res.rtc_raw = 0) =>
        /\ ~res.adj_called
        /\ ~res.set_called
        /\ res.log = "sync_failed"
        /\ res.drift = 0
        /\ sys_time = res.sys_before

\* C1 witness: the daemon's sync found a malformed proc file over a running clock
C1_Witness ==
    /\ res.called
    /\ res.cmdline = 0
    /\ res.rtc_raw = 0
    /\ proc_state = "malformed"
    /\ fp_rtc = 2000
    /\ res.file = DriftRecord(1000, 10000)
    /\ res.log = "sync_failed"

\* C2: for a successful reading, with delta = hw - system time: within the band
\* (|delta| <= 30) nothing is requested and the clock is untouched; outside it
\* adjtime is asked for a slew of exactly delta seconds (tv_sec = delta and no
\* further microseconds).
C2_SlewExactlyDelta ==
    (res.called /\ res.rtc_raw # 0) =>
        LET delta == res.rtc_time - res.sys_before IN
        IF Abs(delta) <= Tolerance
        THEN ~res.adj_called /\ ~res.set_called /\ sys_time = res.sys_before
        ELSE res.adj_called /\ res.tv_sec = delta /\ res.tv_usec = 0

\* C3 as stated: whatever errno adjtime fails with, a step follows
C3_AnyRejectionSteps ==
    (res.called /\ res.adj_called /\ res.errno # "none") => res.set_called

\* C3: when adjtime fails with EINVAL, settimeofday is called (a step) and the
\* adjustment is logged; when it fails with another errno, no step is made, the
\* failure is logged and the system clock stays as it was; when it succeeds no
\* step is made.
C3_EinvalSteps ==
    (res.called /\ res.adj_called) =>
        /\ res.errno = "EINVAL" => (res.set_called /\ res.log = "slewing")
        /\ res.errno \notin {"none", "EINVAL"} =>
              /\ ~res.set_called
              /\ res.log = "slewing_failed"
              /\ sys_time = res.sys_before
        /\ res.errno = "none" => ~res.set_called

\* C3 witness: adjtime answered EINVAL and the system clock was stepped
C3_Witness ==
    /\ res.called
    /\ res.adj_called
    /\ res.errno = "EINVAL"
    /\ res.set_called
    /\ sys_time # res.sys_before

\* C4: after a step the system clock holds hw, the reading (plus extrapolated
\* drift when applied), not the difference.
C4_StepSetsClockToHw ==
    (res.called /\ res.set_called) =>
        /\ res.set_sec = res.rtc_time
        /\ sys_time = res.rtc_time

\* C8 as stated: the extrapolated drift is the product rounded to the nearest integer
C8_RoundedToNearest ==
    (res.called /\ res.cmdline = 0 /\ res.rtc_raw # 0 /\ res.file.state = "ok"
        /\ res.file.drift # 0 /\ res.file.lastsave # 0) =>
        LET p == (res.rtc_raw - res.file.lastsave) * res.file.drift IN
        2 * Abs(res.drift * Million - p) <= Million

\* C8: for a record with rate # 0 and timestamp # 0 the extrapolated drift is
\* (hw - timestamp) * rate with its fraction discarded (truncated towards zero):
\* its magnitude is the largest integer not above the product's magnitude and its
\* sign is never opposite to the product's; record (1000, 0.01) and hw 2000 give 10.
C8_TruncatedProduct ==
    (res.called /\ res.cmdline = 0 /\ res.rtc_raw # 0 /\ res.file.state = "ok"
        /\ res.file.drift # 0 /\ res.file.lastsave # 0) =>
        LET p == (res.rtc_raw - res.file.lastsave) * res.file.drift IN
        /\ Abs(res.drift) * Million <= Abs(p)
        /\ Abs(p) < (Abs(res.drift) + 1) * Million
        /\ (res.drift > 0 => p > 0) /\ (res.drift < 0 => p < 0)
        /\ res.rtc_time = res.rtc_raw + res.drift
        /\ (res.file = DriftRecord(1000, 10000) /\ res.rtc_raw = 2000) => res.drift = 10

\* C8 witness: the record (1000, 0.01) was extrapolated to the reading 2000
C8_Witness ==
    /\ res.called
    /\ res.cmdline = 0
    /\ res.file = DriftRecord(1000, 10000)
    /\ res.rtc_raw = 2000
    /\ res.drift = 10
    /\ res.rtc_time = 2010

\* C9: with the drift file missing, malformed, or holding a zero timestamp or a
\* zero rate, the extrapolated drift is 0, the reading is used as read, and the
\* sync goes on to its decision: adjtime is called exactly when the raw reading
\* is more than 30 s from the system clock.
C9_NoDriftDataMeansZero ==
    (res.called /\ res.cmdline = 0 /\ res.rtc_raw # 0
        /\ (res.file.state \in {"missing", "malformed"}
            \/ res.file.lastsave = 0 \/ res.file.drift = 0)) =>
        /\ res.drift = 0
        /\ res.rtc_time = res.rtc_raw
        /\ res.diff = res.rtc_raw - res.sys_before
        /\ res.adj_called <=> (Abs(res.rtc_raw - res.sys_before) > Tolerance)
        /\ res.log # "sync_failed"

\* C9 witness: a record with timestamp 0 and a non-zero rate was found and the
\* sync went on to request a slew from the raw reading
C9_Witness ==
    /\ res.called
    /\ res.cmdline = 0
    /\ res.file = DriftRecord(0, 10000)
    /\ res.rtc_raw = 2000
    /\ res.sys_before = 1000
    /\ res.adj_called
    /\ res.tv_sec = 1000

\* ------------------------------------------------- claims on the daemon

InLoop == pc \in {"loop", "set_read", "set_add", "set_write", "sleep", "closing", "exited"}

\* C10 as stated: the daemon makes one sync before its first hardware write, and
\* that sync compares the raw reading with the system clock, no drift being added
C10_StartupSyncRaw ==
    /\ n_sync <= 1
    /\ InLoop => n_sync = 1
    /\ n_write > 0 => n_sync = 1
    /\ res.called => (res.drift = 0 /\ res.rtc_time = res.rtc_raw)

\* C10: the daemon makes exactly one sync_fp call, before its first hardware
\* write, and makes it with cmdline = 0, that is with extrapolation: the drift
\* extrapolated from the drift file is added to the reading before it is compared
\* with the system clock (record (1000, 0.04) and reading 2000 compare 2040).
C10_StartupSyncExtrapolates ==
    /\ n_sync <= 1
    /\ InLoop => n_sync = 1
    /\ n_write > 0 => n_sync = 1
    /\ res.called <=> n_sync = 1
    /\ res.called =>
          /\ res.cmdline = 0
          /\ res.rtc_time = res.rtc_raw + res.drift
          /\ res.diff = res.rtc_time - res.sys_before
          /\ (res.file = DriftRecord(1000, 40000) /\ res.rtc_raw = 2000) =>
                (res.drift = 40 /\ res.rtc_time = 2040)

\* C10 witness: the start-up sync added 40 s of extrapolated drift, which took
\* the reading out of the tolerance band, and the loop has since written the clock
C10_Witness ==
    /\ n_sync = 1
    /\ n_write >= 1
    /\ res.cmdline = 0
    /\ res.rtc_raw = 2000
    /\ res.sys_before = 2000
    /\ res.drift = 40
    /\ res.adj_called
    /\ res.tv_sec = 40

\* ---------------------------------------------- claims on termination

\* C11 as stated: when the daemon has left its loop and exited, the termination
\* handling has run once, the lock is released and the drift record is written
C11_ExitAfterPersist ==
    pc = "exited" => (term.count = 1 /\ lock # "self" /\ term.opened)

\* C11: handle_signal's SIGINT branch runs at most once (a further SIGINT meets
\* the default disposition); the daemon leaves its loop only after it ran; once
\* it ran the lock is no longer held by the daemon and, when the drift file
\* could be opened, the file holds the record <time of the signal>:<calc_drift's
\* rate>; all this is so before the process exits.
C11_PersistWhenOpened ==
    /\ term.count <= 1
    /\ pc \in {"closing", "exited"} => term.count = 1
    /\ term.count = 1 =>
          /\ lock # "self"
          /\ sigint = "default"
          /\ term.opened =>
                /\ calc.done
                /\ drift_file.state = "ok"
                /\ drift_file.drift = RateToMicros(calc.rate)
          /\ ~term.opened => ~calc.done

\* C11 witness: the daemon exited after a handled SIGINT that wrote the record
C11_Witness ==
    /\ pc = "exited"
    /\ term.count = 1
    /\ term.opened
    /\ n_write >= 1
    /\ lock = "none"
    /\ drift_file.state = "ok"

\* C12: once the SIGINT handling has run, a daemon that is still alive has
\* running = 0, so its next loop test ends the loop: it never keeps cycling.
C12_TerminateStopsLoop ==
    (term.count >= 1 /\ Alive) => running = 0

\* C13: the daemon begins a write cycle only while it holds the lock, and so
\* never while another instance holds it.
C13_CycleOnlyUnderLock ==
    /\ ~unlocked_cycle
    /\ pc \in {"set_add", "set_write", "sleep"} /\ running = 1 => lock # "other"

\* --------------------------------------------------- claims on the accessor

\* C14 as stated: getRTC gives the proc file's value when that path works, the
\* device's value whenever the proc path fails in any way and the device
\* works, and the failure value 0 only when both paths fail
C14_FallbackOnAnyFailure ==
    res.called =>
       /\ proc_state = "ok" => res.rtc_raw = fp_rtc
       /\ proc_state # "ok" /\ dev_state = "ok" => res.rtc_raw = fp_rtc
       /\ res.rtc_raw = 0 => \/ proc_state # "ok" /\ dev_state # "ok"
                             \/ fp_rtc = 0

\* C14: getRTC gives the proc file's value when the file opens and scans; it
\* asks the device only when the proc file cannot be opened, and then gives the
\* device's value if the ioctl works and 0 otherwise; a proc file that opens
\* but does not scan gives 0 whatever the device could answer.
C14_FallbackOnlyWhenMissing ==
    res.called =>
       /\ proc_state = "ok" => res.rtc_raw = fp_rtc
       /\ proc_state = "missing" /\ dev_state = "ok" => res.rtc_raw = fp_rtc
       /\ proc_state = "missing" /\ dev_state # "ok" => res.rtc_raw = 0
       /\ proc_state = "malformed" => res.rtc_raw = 0

\* C14 witness: the proc file is missing and the device answered
C14_Witness ==
    /\ res.called
    /\ proc_state = "missing"
    /\ dev_state = "ok"
    /\ fp_rtc = 2000
    /\ res.rtc_raw = 2000

\* C15: setRTC(time, saveDrift) with saveDrift set reads the clock as it is
\* before the write, takes old - time as the sample and hands a non-zero
\* sample to add_drift (slot index of the window, index advanced); with
\* saveDrift clear the window and its index are as before the call.
C15_SampleBeforeWrite ==
    last_set.called =>
       /\ last_set.saveDrift = 1 =>
             /\ last_set.old =
                   GetRTC(proc_state, dev_state, last_set.rtc_before)
             /\ last_set.sample = last_set.old - last_set.time
             /\ last_set.sample # 0 =>
                   /\ recorded = <<last_set.sample>>
                   /\ drift_data = [last_set.data EXCEPT
                                      ![last_set.index] = last_set.sample]
                   /\ drift_index = (last_set.index + 1) % WindowSize
             /\ last_set.sample = 0 =>
                   /\ drift_data = last_set.data
                   /\ drift_index = last_set.index
       /\ last_set.saveDrift = 0 =>
             /\ recorded = <<>>
             /\ drift_data = last_set.data
             /\ drift_index = last_set.index

\* C15 witness: fpclock -u read a clock that differs from the system time,
\* recorded the difference and then changed the clock
C15_Witness ==
    /\ pc = "cli_exit"
    /\ last_set.called
    /\ last_set.saveDrift = 1
    /\ last_set.old = last_set.rtc_before
    /\ last_set.sample # 0
    /\ recorded = <<last_set.sample>>
    /\ last_set.rtc_after = last_set.time
    /\ last_set.rtc_after # last_set.rtc_before

\* C16: a command-line action that failed (print or restore whose read of the
\* clock failed, a forced epoch that was refused) has returned a non-zero
\* value, and a refused forced epoch has left the clock unwritten.
C16_FailureReturnsNonZero ==
    pc = "cli_exit" =>
       /\ cli.msg \in {"read_failed", "sync_failed", "epoch_too_low"} =>
             cli.ret # 0
       /\ cli.msg = "epoch_too_low" => ~last_set.called

\* C19: when the read inside setRTC(time, 1) gave 0, nothing was recorded: the
\* window and its index are as before the call.
C19_FailedReadRecordsNothing ==
    (last_set.called /\ last_set.saveDrift = 1 /\ last_set.old = 0) =>
       /\ recorded = <<>>
       /\ drift_data = last_set.data
       /\ drift_index = last_set.index

\* ------------------------------------------- claims on the controller

\* C17: calc_drift leaves every slot of the window and the write index as they
\* were before the call.
C17_CalcLeavesWindow ==
    calc.done =>
       /\ drift_data = calc.before
       /\ drift_index = Len(recorded) % WindowSize

\* C18: a write cycle that follows an earlier one begins no sooner than one
\* whole interval after it, whatever SIGHUP signals arrive in between.
C18_ReloadKeepsInterval ==
    (n_write >= 1 /\ pc = "set_add") => set_time - set_prev >= delay

\* C20: once the SIGINT handling has computed and written the drift record, the
\* daemon records no further sample and writes the clock no more.
C20_NothingAfterPersist ==
    (term.count = 1 /\ term.opened) =>
       /\ Len(recorded) = term.samples
       /\ n_write = term.writes

====
